---- MODULE Spec2Model ----
(***************************************************************************)
(* A model of the college assistant back end:                              *)
(*   - the query router of app/services/query_service.py together with the *)
(*     HTTP endpoint of app/api/endpoints.py that calls it;                *)
(*   - the per-connection audio sessions of SpeechToSpeech.py;             *)
(*   - the population of the relational store by scripts/database_setup.py.*)
(*                                                                         *)
(* Text is modelled at the granularity the router's regular expressions    *)
(* work at: a query is a sequence of blank-separated words drawn from a    *)
(* small vocabulary, and every matcher is computed from the properties of  *)
(* those words (length of the alphanumeric run, capitalisation, leading    *)
(* digits, the substrings "am"/"pm").  An answer is the sequence of the    *)
(* pieces of the f-string that builds it.                                  *)
(***************************************************************************)
EXTENDS Integers, Sequences, FiniteSets, TLC

VARIABLES
    users,              \* rows of the table users, in table order
    attendance,         \* rows of the table attendance, in table order
    rag_chain,          \* QueryService.rag_chain: "loaded" or "none"
    has_get_retriever,  \* whether app.services.rag_service exports get_retriever
    pc,                 \* position of the HTTP request: "idle", "called", "done"
    query,              \* QueryRequest.query of the request being served
    role,               \* QueryRequest.role of the request being served
    outcome,            \* "none", "returned" or "raised"
    answer,             \* the text handle_query returned
    rag_calls,          \* arguments of rag_chain.invoke during the call, in order
    found_user,         \* handle_query's local user: its row's index, 0 for None
    session_data,       \* SpeechToSpeech.session_data: sid -> [buffer]
    conn,               \* the transport's view of each sid: "new", "open", "closed"
    stt_loaded,         \* stt_processor and stt_model are not None
    tts_loaded,         \* tts_tokenizer and tts_model are not None
    translators_loaded, \* guj_en_translator and en_guj_translator are not None
    inflight,           \* per sid, the audio_input of each end_stream handler in progress
    emitted,            \* per sid, the events emitted to room=sid, in order
    hist,               \* per sid, the handlers that ran for it, in order
    llm_calls,          \* per sid and finished end_stream processing, the outcomes
                        \* of the requests it made to FASTAPI_URL, in order
    received,           \* per sid, the data of each audio_chunk event received since connect
    end_path,           \* per sid, the path the last finished end_stream handler took
    handler_errors,     \* <<sid, handler>> of every exception that left a handler
    setup_pc,           \* setup_sql_database: "idle", "populating" or "finished"
    student_data,       \* the list parse_students_from_pdf returned to the run
    next_student,       \* index in student_data of the loop's next student
    txn_users,          \* users rows the session has flushed and not committed
    txn_attendance,     \* attendance rows the session has added and not committed
    run_result,         \* how the last run ended
    db_error,           \* the session raised in the last run for another reason
                        \* than a constraint of the schema
    users_before,       \* the users table when the last run started
    attendance_before,  \* the attendance table when the last run started
    runs,               \* runs of the script started so far
    call_env,           \* what the store and the chain did during the last call
    memo,               \* the calls answered so far: query, role, call_env, result
    requests_seen       \* requests received so far, where they are counted

qvars == <<users, attendance, rag_chain, has_get_retriever, pc, query, role,
           outcome, answer, rag_calls, found_user>>

svars == <<session_data, conn, stt_loaded, tts_loaded, translators_loaded,
           inflight, emitted, hist, llm_calls, received, end_path, handler_errors>>

ivars == <<setup_pc, student_data, next_student, txn_users, txn_attendance,
           run_result, db_error, users_before, attendance_before, runs>>

hvars == <<call_env, memo, requests_seen>>

vars == <<qvars, svars, ivars, hvars>>

-----------------------------------------------------------------------------
(* Bounds of the model *)

MaxQueryLen == 3

\* events the clients send, over all connections
MaxEvents == 5

\* records parse_students_from_pdf returns to one run
MaxStudents == 2

\* runs of the setup script
MaxRuns == 3

\* rows of the attendance table when the formatting of an answer is checked
MaxRecords == 3

\* requests in a run that compares the answers of its calls
MaxCalls == 3

-----------------------------------------------------------------------------
(* Text: the vocabulary and what the regular expressions see of each word *)

Words == {"IT101", "it102", "22ITUOS001", "attendance", "student id", "exam no",
          "list students after", "Rahul", "Tell", "monday", "9:00", "14:30", "pm"}

Queries == UNION {[1..n -> Words] : n \in 0..MaxQueryLen}

Roles == {"guest", "student"}

\* str.lower()
lower(w) ==
    CASE w = "IT101" -> "it101"
      [] w = "IT102" -> "it102"
      [] w = "22ITUOS001" -> "22ituos001"
      [] w = "Rahul" -> "rahul"
      [] w = "Tell" -> "tell"
      [] w = "PATEL" -> "patel"
      [] w = "RAHUL" -> "rahul"
      [] w = "SHAH" -> "shah"
      [] w = "PRIYA" -> "priya"
      [] OTHER -> w

\* str.capitalize() of the weekday group
capitalize(w) ==
    CASE w = "monday" -> "Monday"
      [] OTHER -> w

\* Length of the longest run of letters and digits in w
AlnumRun(w) ==
    CASE w \in {"IT101", "it102", "Rahul"} -> 5
      [] w \in {"22ITUOS001", "attendance"} -> 10
      [] w = "list students after" -> 8
      [] w = "student id" -> 7
      [] w = "monday" -> 6
      [] w \in {"exam no", "Tell"} -> 4
      [] OTHER -> 2

\* w is the letters IT (either case) followed by three digits
ExamForm(w) == w \in {"IT101", "it102"}

\* id_pattern = r'\b(IT\d{3}|[A-Z0-9]{10,})\b' with re.IGNORECASE
IdMinLen == 10

IsIdToken(w) == ExamForm(w) \/ AlnumRun(w) >= IdMinLen

\* one word of name_pattern: [A-Z][a-z]+
Capitalised(w) == w \in {"Rahul", "Tell"}

common_words == {"what", "is", "the", "of", "for", "tell", "me", "provide"}

\* the words of a stored name
NameWords(name) ==
    CASE name = "PATEL RAHUL" -> <<"PATEL", "RAHUL">>
      [] name = "SHAH PRIYA" -> <<"SHAH", "PRIYA">>
      [] OTHER -> <<name>>

Min(S) == CHOOSE x \in S : \A y \in S : x <= y

NULL == "NULL"

-----------------------------------------------------------------------------
(* The relational store as the ORM reads it *)

\* Column.ilike(pattern) for a pattern without wildcards; NULL never matches
ilike(col, pattern) == col # NULL /\ lower(col) = lower(pattern)

\* a case-sensitive LIKE in place of ILIKE
name_like(name, cand) ==
    LET nw == NameWords(name)
    IN \E k \in 0..(Len(nw) - Len(cand)) :
          \A j \in 1..Len(cand) : nw[k + j] = cand[j]

\* User.name.ilike(f"%{name}%"): the candidate's words occur in the stored name
name_ilike(name, cand) ==
    LET nw == NameWords(name)
    IN \E k \in 0..(Len(nw) - Len(cand)) :
          \A j \in 1..Len(cand) : lower(nw[k + j]) = lower(cand[j])

\* Query.first(): the index of the first row that passes the filter, 0 for
\* None; passes[i] tells whether row i passes
first(passes) ==
    LET hits == {i \in 1..Len(passes) : passes[i]}
    IN IF hits = {} THEN 0 ELSE Min(hits)

\* every row of the table, whoever it belongs to
user_attendance_all(user, att) == att

\* the relationship User.attendance
user_attendance(user, att) == SelectSeq(att, LAMBDA a : a.user_id = user.id)

-----------------------------------------------------------------------------
(* QueryService._find_user_from_query *)

\* re.findall(name_pattern, query): the maximal runs of capitalised words
potential_names(q) ==
    {r \in (1..Len(q)) \X (1..Len(q)) :
        /\ r[1] <= r[2]
        /\ \A k \in r[1]..r[2] : Capitalised(q[k])
        /\ (r[1] = 1 \/ ~Capitalised(q[r[1] - 1]))
        /\ (r[2] = Len(q) \/ ~Capitalised(q[r[2] + 1]))}

\* a candidate the loop does query the store for
IsNameCandidate(q, r) ==
    ~(r[1] = r[2] /\ lower(q[r[1]]) \in common_words)

FoundUser(i) == [raised |-> FALSE, user |-> i]

DbRaised == [raised |-> TRUE, user |-> 0]

find_user_by_name(q, db, fault) ==
    LET cands == {r \in potential_names(q) : IsNameCandidate(q, r)}
        hit(r) == first([i \in 1..Len(db) |->
                            name_ilike(db[i].name, SubSeq(q, r[1], r[2]))])
        good  == {r \in cands : hit(r) # 0}
    IN IF cands = {} THEN FoundUser(0)
       ELSE IF fault = "query" THEN DbRaised
       ELSE IF good = {} THEN FoundUser(0)
       ELSE FoundUser(hit(CHOOSE r \in good : \A o \in good : r[1] <= o[1]))

find_user_by_id(identifier, db, fault) ==
    IF fault = "query" THEN DbRaised
    ELSE FoundUser(first([i \in 1..Len(db) |->
                              \/ ilike(db[i].exam_no, identifier)
                              \/ ilike(db[i].student_id, identifier)]))

\* the name lookup tried before the identifier lookup
find_user_name_first(q, db, fault) ==
    LET ids == {i \in 1..Len(q) : IsIdToken(q[i])}
        byName == find_user_by_name(q, db, fault)
    IN IF byName.raised \/ byName.user # 0 \/ ids = {}
       THEN byName
       ELSE find_user_by_id(q[Min(ids)], db, fault)

find_user_from_query(q, db, fault) ==
    LET ids == {i \in 1..Len(q) : IsIdToken(q[i])}
    IN IF ids # {}
       THEN find_user_by_id(q[Min(ids)], db, fault)
       ELSE find_user_by_name(q, db, fault)

-----------------------------------------------------------------------------
(* QueryService._find_timetable_entry *)

weekdays == {"monday", "tuesday", "wednesday", "thursday", "friday",
             "saturday", "sunday"}

\* group 2 of time_pattern when matched at the start of w: \d{1,2}(?::\d{2})?
TimeStr(w) ==
    CASE w = "9:00" -> "9:00"
      [] w = "14:30" -> "14:30"
      [] w = "22ITUOS001" -> "22"
      [] OTHER -> NULL

TimeParts(ts) ==
    CASE ts = "9:00" -> [h |-> 9, m |-> 0, colon |-> TRUE]
      [] ts = "14:30" -> [h |-> 14, m |-> 30, colon |-> TRUE]
      [] OTHER -> [h |-> 22, m |-> 0, colon |-> FALSE]

\* the substrings the router searches for that occur in w.lower()
Substrings(w) ==
    CASE w = "attendance" -> {"attendance"}
      [] w = "student id" -> {"student id"}
      [] w = "exam no" -> {"exam no", "am"}
      [] w = "pm" -> {"pm"}
      [] OTHER -> {}

\* kw in query.lower()
in_lower(kw, q) == \E i \in 1..Len(q) : kw \in Substrings(q[i])

\* re.search(time_pattern, query): the position of the time word, 0 for no match
time_match(q) ==
    LET at(i) == IF /\ i + 1 <= Len(q)
                    /\ TimeStr(q[i + 1]) # NULL
                 THEN i + 1
                 ELSE IF /\ i + 2 <= Len(q)
                         /\ lower(q[i + 1]) = "at"
                         /\ TimeStr(q[i + 2]) # NULL
                 THEN i + 2
                 ELSE 0
        starts == {i \in 1..Len(q) : lower(q[i]) \in weekdays /\ at(i) # 0}
    IN IF starts = {} THEN [day |-> 0, time |-> 0]
       ELSE [day |-> Min(starts), time |-> at(Min(starts))]

\* re.search(r'(am|pm)', query, re.I).group(1)
first_marker(q) ==
    LET i == Min({k \in 1..Len(q) : Substrings(q[k]) \cap {"am", "pm"} # {}})
    IN IF "am" \in Substrings(q[i]) THEN "am" ELSE "pm"

ValueError == [ok |-> FALSE, minutes |-> 0]

\* datetime.strptime(ts + marker, '%I:%M%p').time()
strptime_12(ts, marker) ==
    LET t == TimeParts(ts)
    IN IF t.colon /\ t.h \in 1..12 /\ t.m \in 0..59
       THEN [ok |-> TRUE,
             minutes |-> ((t.h % 12) + (IF marker = "pm" THEN 12 ELSE 0)) * 60 + t.m]
       ELSE ValueError

\* datetime.strptime(ts, '%H:%M').time()
strptime_24(ts) ==
    LET t == TimeParts(ts)
    IN IF t.colon /\ t.h \in 0..23 /\ t.m \in 0..59
       THEN [ok |-> TRUE, minutes |-> t.h * 60 + t.m]
       ELSE ValueError

query_time_obj(q, ts) ==
    IF in_lower("am", q) \/ in_lower("pm", q)
    THEN strptime_12(ts, first_marker(q))
    ELSE strptime_24(ts)

\* The least number of characters a string matching
\* r'For\s(.*?),\s+during\sthe\s(.*?)\sTO\s(.*?)\sslot' has
SlotPatternMinLen == 26

doc_match(doc) == Len(doc) >= SlotPatternMinLen

\* "for doc in relevant_docs" over the string the chain returned: its characters
docs_of(text) == [i \in 1..Len(text) |-> <<text[i]>>]

timetable_rag_query(day, ts) == <<"Timetable for ", day, " at ", ts>>

NoTimetable == [isNone |-> TRUE, text |-> <<>>, calls |-> <<>>]

Timetable(text, calls) == [isNone |-> FALSE, text |-> text, calls |-> calls]

TimeFormatFallback ==
    <<"I couldn't understand the time format. Please try '9:00 AM' or '09:00'.">>

TimetableUnavailable ==
    <<"I am unable to access my timetable knowledge base at the moment.">>

TimetableError ==
    <<"I encountered an error searching the timetable. Please try again.">>

timetable_search(day, ts, chain, retriever, reply) ==
    LET rag_query == timetable_rag_query(day, ts)
        docs == docs_of(reply.text)
        hits == {i \in 1..Len(docs) : doc_match(docs[i])}
    IN IF ~retriever THEN Timetable(TimetableUnavailable, <<>>)
       ELSE IF chain = "none" THEN Timetable(TimetableError, <<>>)
       ELSE IF reply.raises THEN Timetable(TimetableError, <<rag_query>>)
       ELSE IF hits # {} THEN Timetable(docs[Min(hits)], <<rag_query>>)
       ELSE Timetable(<<"No timetable information found for ", day, " at ", ts, ".">>,
                      <<rag_query>>)

find_timetable_entry(q, chain, retriever, reply) ==
    LET m == time_match(q)
        query_day == capitalize(lower(q[m.day]))
        query_time_str == TimeStr(q[m.time])
    IN IF m.day = 0 THEN NoTimetable
       ELSE IF ~query_time_obj(q, query_time_str).ok
       THEN Timetable(TimeFormatFallback, <<>>)
       ELSE timetable_search(query_day, query_time_str, chain, retriever, reply)

-----------------------------------------------------------------------------
(* QueryService.handle_query *)

whitespace == {" ", "\n", "\t"}

RECURSIVE lstrip(_)
lstrip(s) == IF s # <<>> /\ Head(s) \in whitespace THEN lstrip(Tail(s)) ELSE s

RECURSIVE rstrip(_)
rstrip(s) ==
    IF s # <<>> /\ s[Len(s)] \in whitespace THEN rstrip(SubSeq(s, 1, Len(s) - 1)) ELSE s

\* str.strip() of the chain's answer
strip(s) == rstrip(lstrip(s))

\* str(float) of a percentage kept in hundredths, as round(..., 2) stores it
format_percentage(p) ==
    LET whole == ToString(p \div 100)
        frac  == p % 100
    IN IF frac % 10 = 0 THEN <<whole, ".", ToString(frac \div 10)>>
       ELSE IF frac < 10 THEN <<whole, ".", "0", ToString(frac)>>
       ELSE <<whole, ".", ToString(frac)>>

attendance_line(att) == <<"- ", att.subject, ": ">> \o format_percentage(att.percentage) \o <<"%">>

\* "\n".join(lines)
RECURSIVE join_lines(_)
join_lines(lines) ==
    IF lines = <<>> THEN <<>>
    ELSE IF Len(lines) = 1 THEN lines[1]
    ELSE lines[1] \o <<"\n">> \o join_lines(Tail(lines))

attendance_answer(user, rows) ==
    IF rows = <<>>
    THEN <<"I couldn't find any attendance records for ", user.name, ".">>
    ELSE <<"Certainly! Here is the attendance for ", user.name, ":\n">>
         \o join_lines([i \in 1..Len(rows) |-> attendance_line(rows[i])])

student_id_answer(user) ==
    IF user.student_id # NULL /\ user.student_id # ""
    THEN <<"The student ID for ", user.name, " is ", user.student_id, ".">>
    ELSE <<"I don't have a Student ID on file for ", user.name, ".">>

exam_no_answer(user) == <<"The exam number for ", user.name, " is ", user.exam_no, ".">>

user_rag_query(user, q) ==
    <<"Based on the provided documents, answer this question about the student with exam number ",
      user.exam_no, ": ">> \o q

StudentRagUnavailable ==
    <<"I can access student records, but my broader knowledge base is unavailable right now.">>

StudentRagError ==
    <<"I found the student, but had trouble looking up the details. Please try again.">>

RagUnavailable ==
    <<"I'm sorry, my knowledge base is currently unavailable. Please try again later.">>

RagError ==
    <<"I encountered an error while processing your request. Please try again.">>

Returned(text, calls) == [outcome |-> "returned", answer |-> text, calls |-> calls]

Raised(calls) == [outcome |-> "raised", answer |-> <<>>, calls |-> calls]

\* the guard taken even when the chain is loaded
invoke_skipped(chain, arg, reply, unavailable, error) ==
    Returned(unavailable, <<>>)

\* self.rag_chain.invoke(arg) inside try/except, behind the "if not self.rag_chain" guard
invoke_or_fallback(chain, arg, reply, unavailable, error) ==
    IF chain = "none" THEN Returned(unavailable, <<>>)
    ELSE IF reply.raises THEN Returned(error, <<arg>>)
    ELSE Returned(strip(reply.text), <<arg>>)

\* every question about an identified student sent to the chain
student_branch_rag_only(q, user, att, chain, fault, reply) ==
    invoke_or_fallback(chain, user_rag_query(user, q), reply,
                       StudentRagUnavailable, StudentRagError)

\* Scenario 1: a specific student was identified
student_branch(q, user, att, chain, fault, reply) ==
    IF in_lower("attendance", q)
    THEN IF fault = "load" THEN Raised(<<>>)
         ELSE Returned(attendance_answer(user, user_attendance(user, att)), <<>>)
    ELSE IF in_lower("student id", q)
    THEN Returned(student_id_answer(user), <<>>)
    ELSE IF in_lower("exam no", q) \/ in_lower("exam number", q)
    THEN Returned(exam_no_answer(user), <<>>)
    ELSE invoke_or_fallback(chain, user_rag_query(user, q), reply,
                            StudentRagUnavailable, StudentRagError)

\* the student's result returned before the timetable's is looked at
answer_order_student_first(timetable_response, q, db, att, found, chain, fault, reply) ==
    IF found.user # 0
    THEN student_branch(q, db[found.user], att, chain, fault, reply)
    ELSE IF ~timetable_response.isNone /\ timetable_response.text # <<>>
    THEN Returned(timetable_response.text, timetable_response.calls)
    ELSE invoke_or_fallback(chain, q, reply, RagUnavailable, RagError)

\* which of the two results comes first: the timetable's or the student's
answer_order(timetable_response, q, db, att, found, chain, fault, reply) ==
    IF ~timetable_response.isNone /\ timetable_response.text # <<>>
    THEN Returned(timetable_response.text, timetable_response.calls)
    ELSE IF found.user # 0
    THEN student_branch(q, db[found.user], att, chain, fault, reply)
    ELSE invoke_or_fallback(chain, q, reply, RagUnavailable, RagError)

WithUser(res, found) ==
    [outcome |-> res.outcome, answer |-> res.answer, calls |-> res.calls,
     user |-> found.user]

handle_query(q, db, att, chain, retriever, fault, reply) ==
    LET found == find_user_from_query(q, db, fault)
    IN IF found.raised THEN WithUser(Raised(<<>>), found)
       ELSE WithUser(answer_order(find_timetable_entry(q, chain, retriever, reply),
                                  q, db, att, found, chain, fault, reply), found)

\* guests refused
handle_query_logic_by_role(q, r, db, att, chain, retriever, fault, reply) ==
    IF r = "guest"
    THEN [outcome |-> "returned", answer |-> <<"Please log in.">>, calls |-> <<>>,
          user |-> 0]
    ELSE handle_query(q, db, att, chain, retriever, fault, reply)

\* handle_query_logic(query, role, db): role is handed on and never read
handle_query_logic(q, r, db, att, chain, retriever, fault, reply) ==
    handle_query(q, db, att, chain, retriever, fault, reply)

\* no call has been answered yet
NoCallEnv == [fault |-> "none", reply |-> [raises |-> FALSE, text |-> <<>>]]

-----------------------------------------------------------------------------
(* The environment of one call *)

\* what rag_chain.invoke does when it is called: it raises, or returns a string
RagReplies == {[raises |-> TRUE, text |-> <<>>],
               [raises |-> FALSE, text |-> <<" ", "o", "k", "\n">>]}

\* whether the session's SQL fails: not at all, on a query, on the lazy load of
\* User.attendance
DbFaults == {"none", "query", "load"}

StoredUsers ==
    << [id |-> 101, name |-> "PATEL RAHUL", role |-> "student",
        exam_no |-> "IT101", student_id |-> "22ITUOS001"],
       [id |-> 102, name |-> "SHAH PRIYA", role |-> "student",
        exam_no |-> "IT102", student_id |-> "Not Available"] >>

StoredAttendance ==
    << [id |-> 1, subject |-> "Physics", percentage |-> 8500, user_id |-> 101],
       [id |-> 2, subject |-> "Chemistry", percentage |-> 9212, user_id |-> 101] >>

-----------------------------------------------------------------------------
(* The endpoint POST /api/query and the service behind it *)

InitQuery ==
    /\ users = StoredUsers
    /\ attendance = StoredAttendance
    /\ rag_chain \in {"loaded", "none"}
    /\ has_get_retriever \in BOOLEAN
    /\ pc = "idle"
    /\ query = <<>>
    /\ role = "guest"
    /\ outcome = "none"
    /\ answer = <<>>
    /\ rag_calls = <<>>
    /\ found_user = 0
    \* the speech server holds no session
    /\ session_data = << >>
    /\ conn = [s \in {"s1", "s2"} |-> "new"]
    /\ stt_loaded = TRUE
    /\ tts_loaded = TRUE
    /\ translators_loaded = TRUE
    /\ inflight = [s \in {"s1", "s2"} |-> <<>>]
    /\ emitted = [s \in {"s1", "s2"} |-> <<>>]
    /\ hist = [s \in {"s1", "s2"} |-> <<>>]
    /\ llm_calls = [s \in {"s1", "s2"} |-> <<>>]
    /\ received = [s \in {"s1", "s2"} |-> <<>>]
    /\ end_path = [s \in {"s1", "s2"} |-> "none"]
    /\ handler_errors = {}
    \* the setup script is not running
    /\ setup_pc = "idle"
    /\ student_data = <<>>
    /\ next_student = 1
    /\ txn_users = <<>>
    /\ txn_attendance = <<>>
    /\ run_result = "none"
    /\ db_error = FALSE
    /\ users_before = <<>>
    /\ attendance_before = <<>>
    /\ runs = 0
    /\ call_env = NoCallEnv
    /\ memo = {}
    /\ requests_seen = 0

\* a request arrives: handle_query(request, db) of endpoints.py is entered
Request ==
    /\ pc = "idle"
    /\ \E q \in Queries, r \in Roles :
          /\ query' = q
          /\ role' = r
    /\ pc' = "called"
    /\ UNCHANGED <<users, attendance, rag_chain, has_get_retriever, outcome,
                   answer, rag_calls, found_user>>
    /\ UNCHANGED svars
    /\ UNCHANGED ivars
    /\ UNCHANGED hvars

\* the role of the request saved on the identified user's row
HandleQuery_role_saved ==
    /\ pc = "called"
    /\ \E res \in {handle_query_logic(query, role, users, attendance, rag_chain,
                                      has_get_retriever, fault, reply) :
                       fault \in DbFaults, reply \in RagReplies} :
          /\ outcome' = res.outcome
          /\ answer' = res.answer
          /\ rag_calls' = res.calls
          /\ found_user' = res.user
          /\ users' = IF res.user = 0 THEN users
                      ELSE [users EXCEPT ![res.user].role = role]
    /\ pc' = "done"
    /\ UNCHANGED <<attendance, rag_chain, has_get_retriever, query, role>>
    /\ UNCHANGED svars
    /\ UNCHANGED ivars
    /\ UNCHANGED hvars

\* handle_query_logic(query, role, db): the service's handle_query runs
HandleQuery ==
    /\ pc = "called"
    /\ \E res \in {handle_query_logic(query, role, users, attendance, rag_chain,
                                      has_get_retriever, fault, reply) :
                       fault \in DbFaults, reply \in RagReplies} :
          /\ outcome' = res.outcome
          /\ answer' = res.answer
          /\ rag_calls' = res.calls
          /\ found_user' = res.user
    /\ pc' = "done"
    /\ UNCHANGED <<users, attendance, rag_chain, has_get_retriever, query, role>>
    /\ UNCHANGED svars
    /\ UNCHANGED ivars
    /\ UNCHANGED hvars

\* the endpoint returns {"answer": response_text}, or the exception leaves it
Respond ==
    /\ pc = "done"
    /\ pc' = "idle"
    /\ query' = <<>>
    /\ role' = "guest"
    /\ outcome' = "none"
    /\ answer' = <<>>
    /\ rag_calls' = <<>>
    /\ found_user' = 0
    /\ UNCHANGED <<users, attendance, rag_chain, has_get_retriever>>
    /\ UNCHANGED svars
    /\ UNCHANGED ivars
    /\ UNCHANGED hvars

NextQuery == Request \/ HandleQuery \/ Respond

\* queries about the attendance of a student, one of them with a day and a time
AttendanceQueries ==
    {<<"IT101", "attendance">>, <<"it102", "attendance">>,
     <<"22ITUOS001", "attendance", "monday", "9:00">>}

AttendanceRows ==
    {[subject |-> sub, percentage |-> p, user_id |-> u] :
        sub \in {"Physics", "Chemistry"}, p \in {8500, 9212}, u \in {101, 102}}

\* attendance tables of up to MaxRecords rows, numbered in table order
AttendanceTables ==
    {{[i \in 1..n |-> [id |-> i, subject |-> t[i].subject,
                       percentage |-> t[i].percentage, user_id |-> t[i].user_id]] :
        t \in [1..n -> AttendanceRows]} : n \in 0..MaxRecords}

\* the store holds the two students and any of the attendance tables
InitAttendance ==
    /\ users = StoredUsers
    /\ attendance \in UNION AttendanceTables
    /\ rag_chain = "loaded"
    /\ has_get_retriever = FALSE
    /\ pc = "idle"
    /\ query = <<>>
    /\ role = "guest"
    /\ outcome = "none"
    /\ answer = <<>>
    /\ rag_calls = <<>>
    /\ found_user = 0
    /\ session_data = << >>
    /\ conn = [s \in {"s1", "s2"} |-> "new"]
    /\ stt_loaded = TRUE
    /\ tts_loaded = TRUE
    /\ translators_loaded = TRUE
    /\ inflight = [s \in {"s1", "s2"} |-> <<>>]
    /\ emitted = [s \in {"s1", "s2"} |-> <<>>]
    /\ hist = [s \in {"s1", "s2"} |-> <<>>]
    /\ llm_calls = [s \in {"s1", "s2"} |-> <<>>]
    /\ received = [s \in {"s1", "s2"} |-> <<>>]
    /\ end_path = [s \in {"s1", "s2"} |-> "none"]
    /\ handler_errors = {}
    /\ setup_pc = "idle"
    /\ student_data = <<>>
    /\ next_student = 1
    /\ txn_users = <<>>
    /\ txn_attendance = <<>>
    /\ run_result = "none"
    /\ db_error = FALSE
    /\ users_before = <<>>
    /\ attendance_before = <<>>
    /\ runs = 0
    /\ call_env = NoCallEnv
    /\ memo = {}
    /\ requests_seen = 0

\* a request about attendance arrives at the endpoint
RequestAttendance ==
    /\ pc = "idle"
    /\ \E q \in AttendanceQueries, r \in Roles :
          /\ query' = q
          /\ role' = r
    /\ pc' = "called"
    /\ UNCHANGED <<users, attendance, rag_chain, has_get_retriever, outcome,
                   answer, rag_calls, found_user>>
    /\ UNCHANGED svars
    /\ UNCHANGED ivars
    /\ UNCHANGED hvars

NextAttendance == RequestAttendance \/ HandleQuery \/ Respond

\* the queries of the runs that compare the answers of their calls
RepeatedQueries == {<<"IT101", "attendance">>, <<"Rahul", "Tell">>}

\* the service started, chain loaded or not, and no call answered yet
InitCalls ==
    /\ users = StoredUsers
    /\ attendance = StoredAttendance
    /\ rag_chain \in {"loaded", "none"}
    /\ has_get_retriever = FALSE
    /\ pc = "idle"
    /\ query = <<>>
    /\ role = "guest"
    /\ outcome = "none"
    /\ answer = <<>>
    /\ rag_calls = <<>>
    /\ found_user = 0
    /\ session_data = << >>
    /\ conn = [s \in {"s1", "s2"} |-> "new"]
    /\ stt_loaded = TRUE
    /\ tts_loaded = TRUE
    /\ translators_loaded = TRUE
    /\ inflight = [s \in {"s1", "s2"} |-> <<>>]
    /\ emitted = [s \in {"s1", "s2"} |-> <<>>]
    /\ hist = [s \in {"s1", "s2"} |-> <<>>]
    /\ llm_calls = [s \in {"s1", "s2"} |-> <<>>]
    /\ received = [s \in {"s1", "s2"} |-> <<>>]
    /\ end_path = [s \in {"s1", "s2"} |-> "none"]
    /\ handler_errors = {}
    /\ setup_pc = "idle"
    /\ student_data = <<>>
    /\ next_student = 1
    /\ txn_users = <<>>
    /\ txn_attendance = <<>>
    /\ run_result = "none"
    /\ db_error = FALSE
    /\ users_before = <<>>
    /\ attendance_before = <<>>
    /\ runs = 0
    /\ call_env = NoCallEnv
    /\ memo = {}
    /\ requests_seen = 0

\* a request arrives, one of a bounded number
RequestRepeated ==
    /\ pc = "idle"
    /\ requests_seen < MaxCalls
    /\ requests_seen' = requests_seen + 1
    /\ \E q \in RepeatedQueries, r \in Roles :
          /\ query' = q
          /\ role' = r
    /\ pc' = "called"
    /\ UNCHANGED <<users, attendance, rag_chain, has_get_retriever, outcome,
                   answer, rag_calls, found_user>>
    /\ UNCHANGED <<call_env, memo>>
    /\ UNCHANGED svars
    /\ UNCHANGED ivars

\* handle_query_logic runs; what the store and the chain did is kept
HandleRecordedQuery ==
    /\ pc = "called"
    /\ \E fault \in DbFaults, reply \in RagReplies :
          LET res == handle_query_logic(query, role, users, attendance, rag_chain,
                                        has_get_retriever, fault, reply)
          IN /\ outcome' = res.outcome
             /\ answer' = res.answer
             /\ rag_calls' = res.calls
             /\ found_user' = res.user
             /\ call_env' = [fault |-> fault, reply |-> reply]
    /\ pc' = "done"
    /\ UNCHANGED <<users, attendance, rag_chain, has_get_retriever, query, role>>
    /\ UNCHANGED <<memo, requests_seen>>
    /\ UNCHANGED svars
    /\ UNCHANGED ivars

\* the endpoint answers; the call joins the calls answered so far
RespondRecorded ==
    /\ pc = "done"
    /\ memo' = memo \cup {[query |-> query, role |-> role, env |-> call_env,
                            outcome |-> outcome, answer |-> answer]}
    /\ pc' = "idle"
    /\ query' = <<>>
    /\ role' = "guest"
    /\ outcome' = "none"
    /\ answer' = <<>>
    /\ rag_calls' = <<>>
    /\ found_user' = 0
    /\ UNCHANGED <<users, attendance, rag_chain, has_get_retriever>>
    /\ UNCHANGED <<call_env, requests_seen>>
    /\ UNCHANGED svars
    /\ UNCHANGED ivars

NextCalls == RequestRepeated \/ HandleRecordedQuery \/ RespondRecorded

-----------------------------------------------------------------------------
(* SpeechToSpeech.py: the per-connection audio sessions *)

SIDs == {"s1", "s2"}

\* the Float32Array of one audio_chunk event, as np.frombuffer reads it; the
\* samples a client records are its own, so the two clients' samples differ
ChunksOf(s) == IF s = "s1" THEN {<<1>>, <<2, 3>>} ELSE {<<11>>, <<12, 13>>}

Chunks == UNION {ChunksOf(s) : s \in SIDs}

TtsTexts == {"", "text"}

Last(h) == h[Len(h)]

Sent == LET RECURSIVE total(_)
            total(S) == IF S = {} THEN 0
                        ELSE LET s == CHOOSE x \in S : TRUE
                             IN Len(SelectSeq(hist[s], LAMBDA e : e # "end_stream_done"))
                                + total(S \ {s})
        IN total(SIDs)

\* the client of sid s may send an event
CanSend(s) == conn[s] = "open" /\ Sent < MaxEvents

\* emit('transcription', {...}, room=session_id); audio is the audio_input the
\* handler computed the texts from, <<>> on the paths that read none
Transcription(original, english, translated, audio) ==
    [event |-> "transcription", original_text |-> original,
     english_text |-> english, translated_text |-> translated, audio |-> audio]

\* the event of the early returns and of the except branch
TextOnly(original, audio) == Transcription(original, <<>>, <<>>, audio)

ErrorTranscription(audio) ==
    TextOnly(<<"An error occurred during transcription.">>, audio)

TranslationNotLoaded == <<"Translation model not loaded.">>

NoAnswerKey == <<"I'm sorry, I couldn't get a response from the AI assistant.">>

UnableToConnect ==
    <<"I'm sorry, I am unable to connect to my knowledge base right now. Please try again.">>

\* stt_processor.decode(...): the Devanagari text recognised in the samples
stt_decode(audio) == <<"devanagari">> \o [i \in 1..Len(audio) |-> ToString(audio[i])]

\* transliterate(text, sanscript.DEVANAGARI, sanscript.GUJARATI)
transliterate(text) == <<"gujarati">> \o Tail(text)

\* guj_en_translator.translate(text)
translate_gu_en(text) == <<"en">> \o Tail(text)

\* en_guj_translator.translate(text)
translate_en_gu(text) == <<"gu">> \o text

\* what the backend does with the one request: it answers, it answers with a
\* JSON object without "answer", the request fails (connection error, timeout,
\* error status: a RequestException), or something else raises (a JSON body
\* that is not an object)
LlmOutcomes == {"answer", "no_answer", "request_exception", "other_exception"}

\* which step of the try block raises, if any
PipelineFaults == {"none", "stt", "to_english", "to_gujarati"}

\* a second request after a failed one
get_llm_response_retry(q, llm) ==
    [raised |-> llm = "other_exception",
     text |-> CASE llm = "answer" -> <<"answer">>
                [] llm = "no_answer" -> NoAnswerKey
                [] OTHER -> UnableToConnect,
     requests |-> IF llm = "request_exception" THEN <<llm, llm>> ELSE <<llm>>]

\* get_llm_response(query): one requests.post, and what comes back
get_llm_response(q, llm) ==
    [raised |-> llm = "other_exception",
     text |-> CASE llm = "answer" -> <<"answer">>
                [] llm = "no_answer" -> NoAnswerKey
                [] OTHER -> UnableToConnect,
     requests |-> <<llm>>]

\* the try block of handle_end_stream on the buffer it read
process_audio(audio_input, loaded, fault, llm) ==
    LET original == transliterate(stt_decode(audio_input))
        english  == IF loaded THEN translate_gu_en(original) ELSE TranslationNotLoaded
        reply    == get_llm_response(english, llm)
        final    == IF loaded THEN translate_en_gu(reply.text) ELSE TranslationNotLoaded
    IN IF fault = "stt" \/ (loaded /\ fault = "to_english")
       THEN [event |-> ErrorTranscription(audio_input), requests |-> <<>>, path |-> "error"]
       ELSE IF reply.raised \/ (loaded /\ fault = "to_gujarati")
       THEN [event |-> ErrorTranscription(audio_input), requests |-> reply.requests,
             path |-> "error"]
       ELSE [event |-> Transcription(original, english, final, audio_input),
             requests |-> reply.requests, path |-> "ok"]

\* del session_data[session_id]: KeyError when the entry is absent
del_entry(sd, s) ==
    IF s \in DOMAIN sd
    THEN [data |-> [k \in DOMAIN sd \ {s} |-> sd[k]], error |-> FALSE]
    ELSE [data |-> sd, error |-> TRUE]

\* if session_id in session_data: del session_data[session_id]
discard(sd, s) ==
    IF s \in DOMAIN sd THEN del_entry(sd, s) ELSE [data |-> sd, error |-> FALSE]

errors_of(r, s, handler) == IF r.error THEN {<<s, handler>>} ELSE {}

InitSession ==
    /\ session_data = << >>
    /\ conn = [s \in SIDs |-> "new"]
    /\ stt_loaded \in BOOLEAN
    /\ tts_loaded \in BOOLEAN
    /\ translators_loaded \in BOOLEAN
    /\ inflight = [s \in SIDs |-> <<>>]
    /\ emitted = [s \in SIDs |-> <<>>]
    /\ hist = [s \in SIDs |-> <<>>]
    /\ llm_calls = [s \in SIDs |-> <<>>]
    /\ received = [s \in SIDs |-> <<>>]
    /\ end_path = [s \in SIDs |-> "none"]
    /\ handler_errors = {}
    \* no request at the router
    /\ users = StoredUsers
    /\ attendance = StoredAttendance
    /\ rag_chain = "loaded"
    /\ has_get_retriever = FALSE
    /\ pc = "idle"
    /\ query = <<>>
    /\ role = "guest"
    /\ outcome = "none"
    /\ answer = <<>>
    /\ rag_calls = <<>>
    /\ found_user = 0
    \* the setup script is not running
    /\ setup_pc = "idle"
    /\ student_data = <<>>
    /\ next_student = 1
    /\ txn_users = <<>>
    /\ txn_attendance = <<>>
    /\ run_result = "none"
    /\ db_error = FALSE
    /\ users_before = <<>>
    /\ attendance_before = <<>>
    /\ runs = 0
    /\ call_env = NoCallEnv
    /\ memo = {}
    /\ requests_seen = 0

\* @socketio.on('connect')
handle_connect(s) ==
    /\ conn[s] = "new"
    /\ Sent < MaxEvents
    /\ conn' = [conn EXCEPT ![s] = "open"]
    /\ session_data' = [k \in DOMAIN session_data \cup {s} |->
                           IF k = s THEN [buffer |-> <<>>] ELSE session_data[k]]
    /\ hist' = [hist EXCEPT ![s] = Append(@, "connect")]
    /\ received' = [received EXCEPT ![s] = <<>>]
    /\ UNCHANGED <<stt_loaded, tts_loaded, translators_loaded, llm_calls,
                   inflight, emitted, end_path, handler_errors>>
    /\ UNCHANGED qvars
    /\ UNCHANGED ivars
    /\ UNCHANGED hvars

\* one buffer for all connections: the chunk appended to every entry
append_chunk_shared(sd, s, data) ==
    [k \in DOMAIN sd |-> [buffer |-> sd[k].buffer \o data]]

\* no guard: a chunk for an absent entry starts a new buffer
append_chunk_creates(sd, s, data) ==
    [k \in DOMAIN sd \cup {s} |->
        IF k = s
        THEN [buffer |-> (IF s \in DOMAIN sd THEN sd[s].buffer ELSE <<>>) \o data]
        ELSE sd[k]]

\* the chunk put in front of the buffer
append_chunk_prepended(sd, s, data) ==
    IF s \notin DOMAIN sd THEN sd
    ELSE [sd EXCEPT ![s].buffer = data \o @]

\* np.concatenate((session_data[session_id]['buffer'], chunk)), behind the guard
append_chunk(sd, s, data) ==
    IF s \notin DOMAIN sd THEN sd
    ELSE [sd EXCEPT ![s].buffer = @ \o data]

\* @socketio.on('audio_chunk')
handle_audio_chunk(s) ==
    /\ CanSend(s)
    /\ \E data \in ChunksOf(s) :
          /\ session_data' = append_chunk(session_data, s, data)
          /\ received' = [received EXCEPT ![s] = Append(@, data)]
    /\ hist' = [hist EXCEPT ![s] = Append(@, "audio_chunk")]
    /\ UNCHANGED <<conn, stt_loaded, tts_loaded, translators_loaded, llm_calls,
                   inflight, emitted, end_path,
                   handler_errors>>
    /\ UNCHANGED qvars
    /\ UNCHANGED ivars
    /\ UNCHANGED hvars

\* an early return that emits nothing
end_stream_early_silent(s, text, path) ==
    LET r == discard(session_data, s)
    IN /\ session_data' = r.data
       /\ handler_errors' = handler_errors \cup errors_of(r, s, "end_stream")
       /\ hist' = [hist EXCEPT ![s] = Append(@, "end_stream")]
       /\ end_path' = [end_path EXCEPT ![s] = path]
       /\ UNCHANGED <<inflight, emitted>>

\* an end_stream handler that returns before the try block
end_stream_early(s, text, path) ==
    LET r == discard(session_data, s)
    IN /\ emitted' = [emitted EXCEPT ![s] = Append(@, TextOnly(<<text>>, <<>>))]
       /\ session_data' = r.data
       /\ handler_errors' = handler_errors \cup errors_of(r, s, "end_stream")
       /\ hist' = [hist EXCEPT ![s] = Append(@, "end_stream")]
       /\ end_path' = [end_path EXCEPT ![s] = path]
       /\ UNCHANGED inflight

\* @socketio.on('end_stream'): up to the read of the buffer
handle_end_stream(s) ==
    /\ CanSend(s)
    /\ IF s \notin DOMAIN session_data \/ Len(session_data[s].buffer) = 0
       THEN end_stream_early(s, "No audio recorded.", "no_audio")
       ELSE IF ~stt_loaded
       THEN end_stream_early(s, "STT model not loaded on server.", "no_model")
       ELSE /\ inflight' = [inflight EXCEPT ![s] = Append(@, session_data[s].buffer)]
            /\ hist' = [hist EXCEPT ![s] = Append(@, "end_stream_begin")]
            /\ UNCHANGED <<session_data, emitted, end_path, handler_errors>>
    /\ UNCHANGED <<conn, stt_loaded, tts_loaded, translators_loaded, llm_calls, received>>
    /\ UNCHANGED qvars
    /\ UNCHANGED ivars
    /\ UNCHANGED hvars

\* the cleanup without its "in" guard
end_stream_cleanup_unguarded(sd, s) == del_entry(sd, s)

\* the cleanup after the try block left out
end_stream_cleanup_missing(sd, s) == [data |-> sd, error |-> FALSE]

\* the cleanup after the try/except of handle_end_stream
end_stream_cleanup(sd, s) == discard(sd, s)

\* the rest of handle_end_stream: recognition, translation, the query, the emit
\* and the cleanup
finish_end_stream(s) ==
    /\ inflight[s] # <<>>
    /\ \E i \in 1..Len(inflight[s]) :
          \E done \in {process_audio(inflight[s][i], translators_loaded, fault, llm) :
                           fault \in PipelineFaults, llm \in LlmOutcomes} :
             LET r == end_stream_cleanup(session_data, s)
             IN /\ inflight' = [inflight EXCEPT ![s] =
                                   SubSeq(@, 1, i - 1) \o SubSeq(@, i + 1, Len(@))]
                /\ emitted' = [emitted EXCEPT ![s] = Append(@, done.event)]
                /\ llm_calls' = [llm_calls EXCEPT ![s] = Append(@, done.requests)]
                /\ end_path' = [end_path EXCEPT ![s] = done.path]
                /\ session_data' = r.data
                /\ handler_errors' = handler_errors \cup errors_of(r, s, "end_stream")
    /\ hist' = [hist EXCEPT ![s] = Append(@, "end_stream_done")]
    /\ UNCHANGED <<conn, stt_loaded, tts_loaded, translators_loaded, received>>
    /\ UNCHANGED qvars
    /\ UNCHANGED ivars
    /\ UNCHANGED hvars

\* cancel_stream leaving the entry in place
cancel_stream_keep(sd, s) == [data |-> sd, error |-> FALSE]

cancel_stream_data(sd, s) == discard(sd, s)

\* @socketio.on('cancel_stream')
handle_cancel_stream(s) ==
    /\ CanSend(s)
    /\ LET r == cancel_stream_data(session_data, s)
       IN /\ session_data' = r.data
          /\ handler_errors' = handler_errors \cup errors_of(r, s, "cancel_stream")
    /\ hist' = [hist EXCEPT ![s] = Append(@, "cancel_stream")]
    /\ UNCHANGED <<conn, stt_loaded, tts_loaded, translators_loaded, llm_calls, received,
                   inflight, emitted, end_path>>
    /\ UNCHANGED qvars
    /\ UNCHANGED ivars
    /\ UNCHANGED hvars

\* disconnect leaving the entry in place
disconnect_keep(sd, s) == [data |-> sd, error |-> FALSE]

disconnect_data(sd, s) == discard(sd, s)

\* @socketio.on('disconnect')
handle_disconnect(s) ==
    /\ CanSend(s)
    /\ LET r == disconnect_data(session_data, s)
       IN /\ session_data' = r.data
          /\ handler_errors' = handler_errors \cup errors_of(r, s, "disconnect")
    /\ conn' = [conn EXCEPT ![s] = "closed"]
    /\ hist' = [hist EXCEPT ![s] = Append(@, "disconnect")]
    /\ UNCHANGED <<stt_loaded, tts_loaded, translators_loaded, llm_calls, received,
                   inflight, emitted, end_path>>
    /\ UNCHANGED qvars
    /\ UNCHANGED ivars
    /\ UNCHANGED hvars

\* @socketio.on('tts_request'); failed is an exception during synthesis
handle_tts_request(s) ==
    /\ CanSend(s)
    /\ \E text \in TtsTexts, failed \in BOOLEAN :
          emitted' =
              IF text = "" THEN emitted
              ELSE IF ~tts_loaded
              THEN [emitted EXCEPT ![s] = Append(@,
                      [event |-> "tts_response", error |-> "TTS model not loaded on server."])]
              ELSE IF failed
              THEN [emitted EXCEPT ![s] = Append(@,
                      [event |-> "tts_response", error |-> "An error occurred during TTS synthesis."])]
              ELSE [emitted EXCEPT ![s] = Append(@,
                      [event |-> "tts_response", audio_data |-> text])]
    /\ hist' = [hist EXCEPT ![s] = Append(@, "tts_request")]
    /\ UNCHANGED <<session_data, conn, stt_loaded, tts_loaded, translators_loaded, llm_calls, received,
                   inflight, end_path,
                   handler_errors>>
    /\ UNCHANGED qvars
    /\ UNCHANGED ivars
    /\ UNCHANGED hvars

NextSession ==
    \E s \in SIDs :
        \/ handle_connect(s)
        \/ handle_audio_chunk(s)
        \/ handle_end_stream(s)
        \/ finish_end_stream(s)
        \/ handle_cancel_stream(s)
        \/ handle_disconnect(s)
        \/ handle_tts_request(s)

-----------------------------------------------------------------------------
(* scripts/database_setup.py: the population of the relational store *)

\* the records parse_students_from_pdf appends: an exam number, a student ID or
\* "Not Available", and a name
ParsedRecords ==
    {[exam_no |-> e, student_id |-> sid,
      name |-> IF e = "IT101" THEN "PATEL RAHUL" ELSE "SHAH PRIYA"] :
        e \in {"IT101", "IT102"},
        sid \in {"22ITUOS001", "22ITUOS002", "Not Available"}}

\* int(re.search(r'\d+', exam_no).group()), also the sort key of the parser
exam_number(e) == IF e = "IT101" THEN 101 ELSE 102

\* what parse_students_from_pdf can return: [] or the records sorted by exam number
ParseResults ==
    {sd \in UNION {[1..n -> ParsedRecords] : n \in 0..MaxStudents} :
        \A i, j \in 1..Len(sd) :
            i < j => exam_number(sd[i].exam_no) <= exam_number(sd[j].exam_no)}

subjects == <<"Physics", "Chemistry", "Mathematics", "Data Structures", "Algorithms">>

\* round(random.uniform(65.0, 99.5), 2) for the subjects of one student, in hundredths
PercentageDraws ==
    {[i \in 1..Len(subjects) |-> 6500],
     [i \in 1..Len(subjects) |-> IF i = 1 THEN 9950 ELSE 7025]}

\* the guard never taken
table_has_rows_never(rows) == FALSE

\* db.query(User).count() > 0
table_has_rows(rows) == Len(rows) > 0

\* User(id=user_id, name=..., exam_no=..., student_id=..., role="student")
new_user(student) ==
    [id |-> exam_number(student.exam_no), name |-> student.name, role |-> "student",
     exam_no |-> student.exam_no, student_id |-> student.student_id]

\* no constraint on the users table
violates_constraint_unchecked(rows, u) == FALSE

\* the INSERT of u breaks the primary key or a unique constraint of users
violates_constraint(rows, u) ==
    \E i \in 1..Len(rows) :
        \/ rows[i].id = u.id
        \/ rows[i].exam_no = u.exam_no
        \/ (u.student_id # NULL /\ rows[i].student_id = u.student_id)

\* the row's own id written to user_id
new_attendance_own_id(student_user, draw, stored) ==
    [i \in 1..Len(subjects) |->
        [id |-> stored + i, subject |-> subjects[i], percentage |-> draw[i],
         user_id |-> stored + i]]

\* the Attendance rows added for one student; stored rows precede them
new_attendance(student_user, draw, stored) ==
    [i \in 1..Len(subjects) |->
        [id |-> stored + i, subject |-> subjects[i], percentage |-> draw[i],
         user_id |-> student_user.id]]

\* db.commit() in place of db.flush()
db_flush_commits(pending, row, violates, fault) ==
    IF fault \/ violates
    THEN [raised |-> TRUE, committed |-> <<>>, pending |-> pending]
    ELSE [raised |-> FALSE, committed |-> Append(pending, row), pending |-> <<>>]

\* db.add(student_user); db.flush(): the INSERT is sent inside the transaction
db_flush(pending, row, violates, fault) ==
    IF fault \/ violates
    THEN [raised |-> TRUE, committed |-> <<>>, pending |-> pending]
    ELSE [raised |-> FALSE, committed |-> <<>>, pending |-> Append(pending, row)]

InitIngest ==
    /\ users = <<>>
    /\ attendance = <<>>
    /\ setup_pc = "idle"
    /\ student_data = <<>>
    /\ next_student = 1
    /\ txn_users = <<>>
    /\ txn_attendance = <<>>
    /\ run_result = "none"
    /\ db_error = FALSE
    /\ users_before = <<>>
    /\ attendance_before = <<>>
    /\ runs = 0
    /\ call_env = NoCallEnv
    /\ memo = {}
    /\ requests_seen = 0
    \* no request at the router, no session at the speech server
    /\ rag_chain = "loaded"
    /\ has_get_retriever = FALSE
    /\ pc = "idle"
    /\ query = <<>>
    /\ role = "guest"
    /\ outcome = "none"
    /\ answer = <<>>
    /\ rag_calls = <<>>
    /\ found_user = 0
    /\ session_data = << >>
    /\ conn = [s \in SIDs |-> "new"]
    /\ stt_loaded = TRUE
    /\ tts_loaded = TRUE
    /\ translators_loaded = TRUE
    /\ inflight = [s \in SIDs |-> <<>>]
    /\ emitted = [s \in SIDs |-> <<>>]
    /\ hist = [s \in SIDs |-> <<>>]
    /\ llm_calls = [s \in SIDs |-> <<>>]
    /\ received = [s \in SIDs |-> <<>>]
    /\ end_path = [s \in SIDs |-> "none"]
    /\ handler_errors = {}

\* except Exception: db.rollback(), and the run is over
rollback_setup ==
    /\ txn_users' = <<>>
    /\ txn_attendance' = <<>>
    /\ run_result' = "failed"
    /\ setup_pc' = "finished"

\* setup_sql_database up to the loop: the count guard and the parse; fault is
\* the count query raising
begin_setup ==
    /\ setup_pc = "idle"
    /\ runs < MaxRuns
    /\ runs' = runs + 1
    /\ users_before' = users
    /\ attendance_before' = attendance
    /\ next_student' = 1
    /\ \E fault \in BOOLEAN, parsed \in ParseResults :
          /\ db_error' = fault
          /\ IF fault
             THEN rollback_setup /\ student_data' = <<>>
             ELSE /\ UNCHANGED <<txn_users, txn_attendance>>
                  /\ IF table_has_rows(users)
                     THEN /\ run_result' = "skipped"
                          /\ setup_pc' = "finished"
                          /\ student_data' = <<>>
                     ELSE /\ student_data' = parsed
                          /\ IF parsed = <<>>
                             THEN run_result' = "aborted" /\ setup_pc' = "finished"
                             ELSE run_result' = "running" /\ setup_pc' = "populating"
    /\ UNCHANGED <<users, attendance>>
    /\ UNCHANGED <<rag_chain, has_get_retriever, pc, query, role, outcome, answer,
                   rag_calls, found_user>>
    /\ UNCHANGED svars
    /\ UNCHANGED hvars

\* one turn of the loop: the user is added and flushed, then the student's
\* attendance rows are added; fault is the flush raising for another reason
\* than a constraint
add_student ==
    /\ setup_pc = "populating"
    /\ next_student <= Len(student_data)
    /\ \E fault \in BOOLEAN, draw \in PercentageDraws :
          LET student_user == new_user(student_data[next_student])
              r == db_flush(txn_users, student_user,
                            violates_constraint(users \o txn_users, student_user), fault)
          IN /\ users' = users \o r.committed
             /\ db_error' = (db_error \/ fault)
             /\ IF r.raised
                THEN rollback_setup /\ UNCHANGED next_student
                ELSE /\ txn_users' = r.pending
                     /\ txn_attendance' = txn_attendance \o
                            new_attendance(student_user, draw,
                                           Len(attendance) + Len(txn_attendance))
                     /\ next_student' = next_student + 1
                     /\ UNCHANGED <<run_result, setup_pc>>
    /\ UNCHANGED <<attendance, student_data, users_before, attendance_before, runs>>
    /\ UNCHANGED <<rag_chain, has_get_retriever, pc, query, role, outcome, answer,
                   rag_calls, found_user>>
    /\ UNCHANGED svars
    /\ UNCHANGED hvars

\* db.commit() after the loop; fault is the commit raising
commit_setup ==
    /\ setup_pc = "populating"
    /\ next_student > Len(student_data)
    /\ \E fault \in BOOLEAN :
          /\ db_error' = (db_error \/ fault)
          /\ IF fault
             THEN rollback_setup /\ UNCHANGED <<users, attendance>>
             ELSE /\ users' = users \o txn_users
                  /\ attendance' = attendance \o txn_attendance
                  /\ txn_users' = <<>>
                  /\ txn_attendance' = <<>>
                  /\ run_result' = "populated"
                  /\ setup_pc' = "finished"
    /\ UNCHANGED <<student_data, next_student, users_before, attendance_before, runs>>
    /\ UNCHANGED <<rag_chain, has_get_retriever, pc, query, role, outcome, answer,
                   rag_calls, found_user>>
    /\ UNCHANGED svars
    /\ UNCHANGED hvars

\* finally: db.close(), and the script ends
close_setup ==
    /\ setup_pc = "finished"
    /\ setup_pc' = "idle"
    /\ student_data' = <<>>
    /\ next_student' = 1
    /\ UNCHANGED <<users, attendance, txn_users, txn_attendance, run_result,
                   db_error, users_before, attendance_before, runs>>
    /\ UNCHANGED <<rag_chain, has_get_retriever, pc, query, role, outcome, answer,
                   rag_calls, found_user>>
    /\ UNCHANGED svars
    /\ UNCHANGED hvars

NextIngest == begin_setup \/ add_student \/ commit_setup \/ close_setup

-----------------------------------------------------------------------------
(* Properties of the query router, checked under SpecQuery *)

\* handle_query has returned an answer to the endpoint
ReturnedCall == pc = "done" /\ outcome = "returned"

HasIdWord(q) == \E i \in 1..Len(q) : IsIdToken(q[i])

FirstIdWord(q) == q[Min({i \in 1..Len(q) : IsIdToken(q[i])})]

NameWordsLower(u) == {lower(NameWords(u.name)[k]) : k \in 1..Len(NameWords(u.name))}

ContainsNameOf(q, u) == \E i \in 1..Len(q) : lower(q[i]) \in NameWordsLower(u)

ContainsExamNoOf(q, u) == \E i \in 1..Len(q) : lower(q[i]) = lower(u.exam_no)

ContainsIdOf(q, u) ==
    \E i \in 1..Len(q) : lower(q[i]) \in {lower(u.exam_no), lower(u.student_id)}

HasDayTime(q) == time_match(q).day # 0

AsksStoredField(q) ==
    \/ in_lower("attendance", q)
    \/ in_lower("student id", q)
    \/ in_lower("exam no", q)
    \/ in_lower("exam number", q)

\* the answers the router builds from the rows of user u alone
RelationalAnswersOf(u) ==
    {attendance_answer(u, user_attendance(u, attendance)),
     student_id_answer(u),
     exam_no_answer(u)}

\* every answer the student branch can give for user u
StudentAnswersOf(u) ==
    RelationalAnswersOf(u) \cup {StudentRagUnavailable, StudentRagError}
        \cup {strip(r.text) : r \in {x \in RagReplies : ~x.raises}}

TimetableAnswers ==
    {TimeFormatFallback, TimetableUnavailable, TimetableError}
        \cup {<<"No timetable information found for ", "Monday", " at ", ts, ".">> :
                ts \in {"9:00", "14:30"}}

IsTimetableCall(c) == Len(c) = 4 /\ c[1] = "Timetable for "

\* C1 as claimed: whenever the query contains the exam number of a stored user,
\* the call that returns has an answer built from the store and made no RAG call
\* (stated for a loaded chain, the case in which a call can be made).
C1_Original ==
    (/\ ReturnedCall
     /\ rag_chain = "loaded"
     /\ \E k \in 1..Len(users) : ContainsExamNoOf(query, users[k]))
        => /\ rag_calls = <<>>
           /\ \E k \in 1..Len(users) : answer \in RelationalAnswersOf(users[k])

\* C1 as amended: when the first identifier-pattern word of the query is the exam
\* number of a stored user, the query carries no day/time pattern and asks for
\* attendance, student id or exam no, handle_query makes no RAG call, and the
\* answer it returns is the one built from that user's rows.
C1_RelationalAnswerNoRag ==
    \A k \in 1..Len(users) :
        (/\ pc = "done"
         /\ HasIdWord(query)
         /\ lower(FirstIdWord(query)) = lower(users[k].exam_no)
         /\ ~HasDayTime(query)
         /\ AsksStoredField(query))
            => /\ rag_calls = <<>>
               /\ outcome = "returned" => answer \in RelationalAnswersOf(users[k])

C1_Witness ==
    /\ ReturnedCall
    /\ HasIdWord(query)
    /\ lower(FirstIdWord(query)) = lower(users[2].exam_no)
    /\ ~HasDayTime(query)
    /\ in_lower("exam no", query)
    /\ answer = <<"The exam number for ", "SHAH PRIYA", " is ", "IT102", ".">>

NoNameWord(q) == \A k \in 1..Len(users) : ~ContainsNameOf(q, users[k])

\* C2 as claimed: a query with no identifier-pattern word and no stored name is
\* never answered without a RAG invocation.
C2_Original ==
    (ReturnedCall /\ ~HasIdWord(query) /\ NoNameWord(query)) => rag_calls # <<>>

\* C2 as amended: for a query with no identifier-pattern word, no stored name and
\* no day/time pattern, and with the RAG chain loaded, a call that returns has
\* invoked the chain exactly once, with the query itself.
C2_FallbackInvokesRag ==
    (/\ ReturnedCall
     /\ ~HasIdWord(query)
     /\ NoNameWord(query)
     /\ ~HasDayTime(query)
     /\ rag_chain = "loaded")
        => rag_calls = <<query>>

C2_Witness ==
    /\ ReturnedCall
    /\ ~HasIdWord(query)
    /\ NoNameWord(query)
    /\ ~HasDayTime(query)
    /\ rag_chain = "loaded"
    /\ Len(query) >= 2
    /\ rag_calls = <<query>>
    /\ answer = <<"o", "k">>

\* C3 as claimed: handle_query never lets an exception reach its caller, whatever
\* fails inside it, the relational store included.
C3_NeverRaises == pc = "done" => outcome = "returned"

\* C4 as claimed: for a query that identifies a stored user and carries a
\* day/time pattern the answer is the student branch's, and no timetable
\* sub-query is sent to the chain.
C4_Original ==
    (ReturnedCall /\ found_user # 0 /\ HasDayTime(query))
        => /\ answer \in StudentAnswersOf(users[found_user])
           /\ \A i \in 1..Len(rag_calls) : ~IsTimetableCall(rag_calls[i])

\* C4 as amended: the timetable result is returned first: for a query that
\* identifies a stored user and carries a day/time pattern, the answer is one of
\* the timetable branch's sentences, and the only call the chain can have received
\* is the timetable sub-query; the student branch contributes nothing.
C4_TimetableBeforeStudent ==
    (ReturnedCall /\ found_user # 0 /\ HasDayTime(query))
        => /\ answer \in TimetableAnswers
           /\ answer \notin StudentAnswersOf(users[found_user])
           /\ \A i \in 1..Len(rag_calls) : IsTimetableCall(rag_calls[i])

C4_Witness ==
    /\ ReturnedCall
    /\ found_user = 1
    /\ HasDayTime(query)
    /\ ContainsExamNoOf(query, users[1])
    /\ rag_chain = "loaded"
    /\ ~has_get_retriever
    /\ rag_calls = <<>>
    /\ answer = TimetableUnavailable

\* C5 as claimed: a query with the name of stored user A and the exam number or
\* student ID of another stored user B resolves to A.
C5_Original ==
    \A a, b \in 1..Len(users) :
        (/\ ReturnedCall
         /\ a # b
         /\ ContainsNameOf(query, users[a])
         /\ ContainsIdOf(query, users[b]))
            => found_user = a

\* C5 as amended: the identifier match is attempted before the name match, and
\* the name match only for a query without an identifier-pattern word: a query
\* with the name of stored user A and an identifier-pattern word resolves to the
\* user B whose exam number or student ID its first such word is, and to no user
\* when no stored user has that word as exam number or student ID.
C5_IdentifierBeforeName ==
    \A a \in 1..Len(users) :
        (/\ ReturnedCall
         /\ ContainsNameOf(query, users[a])
         /\ HasIdWord(query))
            => /\ \A b \in 1..Len(users) :
                     (/\ a # b
                      /\ lower(FirstIdWord(query)) \in
                            {lower(users[b].exam_no), lower(users[b].student_id)})
                        => found_user = b
               /\ (\A b \in 1..Len(users) :
                       lower(FirstIdWord(query)) \notin
                            {lower(users[b].exam_no), lower(users[b].student_id)})
                     => found_user = 0

C5_Witness ==
    /\ ReturnedCall
    /\ ContainsNameOf(query, users[1])
    /\ HasIdWord(query)
    /\ lower(FirstIdWord(query)) = lower(users[2].exam_no)
    /\ found_user = 2
    /\ query[1] = "Rahul"

\* "list students after <name>" with the name of a stored user
IsListAfterQuery(q) ==
    /\ Len(q) = 2
    /\ q[1] = "list students after"
    /\ \E k \in 1..Len(users) : ContainsNameOf(<<q[2]>>, users[k])

HasWellFormedDayTime(q) ==
    /\ HasDayTime(q)
    /\ strptime_24(TimeStr(q[time_match(q).time])).ok
    /\ ~in_lower("am", q)
    /\ ~in_lower("pm", q)

\* C7 as claimed: for a weekday followed by a well-formed time the chain is invoked
\* with the sub-query "Timetable for <Day> at <time>".
C7_TimetableInvokesRag ==
    (ReturnedCall /\ rag_chain = "loaded" /\ HasWellFormedDayTime(query))
        => rag_calls = <<timetable_rag_query("Monday", TimeStr(query[time_match(query).time]))>>

\* C17: a call of handle_query leaves the users and attendance tables as they
\* were, for every query and role and on every branch, the failing ones included.
C17_StoreUnchanged ==
    /\ [][pc = "called" => (users' = users /\ attendance' = attendance)]_vars
    /\ [](users = StoredUsers /\ attendance = StoredAttendance)

\* a call that identified a student and then failed on the load of the records
C17_Witness ==
    /\ pc = "done"
    /\ outcome = "raised"
    /\ found_user = 1
    /\ role = "student"
    /\ users = StoredUsers
    /\ attendance = StoredAttendance

-----------------------------------------------------------------------------
(* The router across calls, checked under SpecCalls *)

\* the calls answered earlier that agree with the present one on the query text
\* and on what the store and the chain do
SameCallBefore == {m \in memo : m.query = query /\ m.env = call_env}

-----------------------------------------------------------------------------
(* The format of the attendance answer, checked under SpecAttendance *)

\* the records of user u, in the order the table stores them
RecordsOf(u) ==
    LET idx == {i \in 1..Len(attendance) : attendance[i].user_id = u.id}
        RECURSIVE inOrder(_)
        inOrder(S) == IF S = {} THEN <<>>
                      ELSE <<attendance[Min(S)]>> \o inOrder(S \ {Min(S)})
    IN inOrder(idx)

\* the pieces of a text between its line breaks
RECURSIVE SplitLines(_)
SplitLines(text) ==
    LET breaks == {i \in 1..Len(text) : text[i] = "\n"}
    IN IF breaks = {} THEN <<text>>
       ELSE <<SubSeq(text, 1, Min(breaks) - 1)>>
                \o SplitLines(SubSeq(text, Min(breaks) + 1, Len(text)))

\* what Python prints for the two percentages of the tables: 85.0 and 92.12
PercentText(p) == IF p = 8500 THEN <<"85", ".", "0">> ELSE <<"92", ".", "12">>

ExpectedLine(rec) ==
    <<"- ", rec.subject, ": ">> \o PercentText(rec.percentage) \o <<"%">>

\* the answer is the heading for u followed by exactly the lines of recs, in order
ListsExactly(text, u, recs) ==
    /\ Len(text) > 3
    /\ SubSeq(text, 1, 3) = <<"Certainly! Here is the attendance for ", u.name, ":\n">>
    /\ LET lines == SplitLines(SubSeq(text, 4, Len(text)))
       IN /\ Len(lines) = Len(recs)
          /\ \A j \in 1..Len(recs) : lines[j] = ExpectedLine(recs[j])

AsksAttendanceOfUser ==
    /\ ReturnedCall
    /\ found_user # 0
    /\ in_lower("attendance", query)
    /\ Len(RecordsOf(users[found_user])) >= 1

\* C16 as claimed: for an identified user with at least one record and a query
\* that asks for attendance, the answer lists one line per record, in stored order.
C16_Original ==
    AsksAttendanceOfUser
        => ListsExactly(answer, users[found_user], RecordsOf(users[found_user]))

\* C16 as amended: the same, for a query that carries no day/time pattern (one
\* that does is answered by the timetable branch).
C16_AttendanceLines ==
    (AsksAttendanceOfUser /\ ~HasDayTime(query))
        => ListsExactly(answer, users[found_user], RecordsOf(users[found_user]))

\* three rows, the student's two records around a row of the other student
C16_Witness ==
    /\ AsksAttendanceOfUser
    /\ ~HasDayTime(query)
    /\ found_user = 1
    /\ Len(attendance) = 3
    /\ attendance[2].user_id = 102
    /\ attendance[1].subject = "Chemistry"
    /\ attendance[3].subject = "Physics"
    /\ answer = <<"Certainly! Here is the attendance for ", "PATEL RAHUL", ":\n",
                  "- ", "Chemistry", ": ", "92", ".", "12", "%", "\n",
                  "- ", "Physics", ": ", "85", ".", "0", "%">>

\* C24: for a query that contains the capitalised name of a stored user and no
\* word equal to a stored exam number or student ID, the call resolves the query
\* to a user whose name contains that name, whatever else the query contains.
C24_NameFallback ==
    \A a \in 1..Len(users) :
        (/\ ReturnedCall
         /\ ContainsNameOf(query, users[a])
         /\ \A b \in 1..Len(users) : ~ContainsIdOf(query, users[b]))
            => /\ found_user # 0
               /\ ContainsNameOf(query, users[found_user])

\* the time the day/time pattern of q captures is an HH:MM with hour 0-23 and
\* minute 0-59
HasWellFormedTime(q) ==
    /\ time_match(q).time # 0
    /\ LET t == TimeParts(TimeStr(q[time_match(q).time]))
       IN t.colon /\ t.h \in 0..23 /\ t.m \in 0..59

\* C27: a query whose day/time pattern carries a well-formed 24-hour time and
\* that has no am or pm word is not answered with the time-format fallback,
\* whatever other words it contains.
C27_TwentyFourHourParsed ==
    (/\ ReturnedCall
     /\ HasWellFormedTime(query)
     /\ \A i \in 1..Len(query) : lower(query[i]) \notin {"am", "pm"})
        => answer # TimeFormatFallback

\* the rows ingestion creates from a record without a student ID
CreatedWithoutStudentId ==
    {new_user(rec) : rec \in {p \in ParsedRecords : p.student_id = "Not Available"}}

\* C26: for a user created by ingestion from a record without a student ID, a
\* query that identifies the user and asks for the "student id" (and for no
\* timetable slot and no attendance) is answered with "I don't have a Student ID
\* on file for <name>.".
C26_NoPlaceholderStudentId ==
    \A k \in 1..Len(users) :
        (/\ ReturnedCall
         /\ found_user = k
         /\ users[k] \in CreatedWithoutStudentId
         /\ in_lower("student id", query)
         /\ ~in_lower("attendance", query)
         /\ time_match(query).day = 0)
            => answer = <<"I don't have a Student ID on file for ", users[k].name, ".">>

-----------------------------------------------------------------------------
(* Properties of the audio sessions, checked under SpecSession *)

HasEntry(s) == s \in DOMAIN session_data

TranscriptionsTo(s) ==
    {i \in 1..Len(emitted[s]) : emitted[s][i].event = "transcription"}

\* connect, then only audio_chunk events, then cancel_stream
IsCancelledRecording(h) ==
    /\ Len(h) >= 2
    /\ h[1] = "connect"
    /\ h[Len(h)] = "cancel_stream"
    /\ \A i \in 2..(Len(h) - 1) : h[i] = "audio_chunk"

\* C8: for every connection, after connect, N audio_chunk events and cancel_stream
\* no transcription has been emitted to it and it has no entry in session_data.
C8_CancelDiscards ==
    \A s \in SIDs :
        IsCancelledRecording(hist[s]) => TranscriptionsTo(s) = {} /\ ~HasEntry(s)

C8_Witness ==
    \E s \in SIDs :
        /\ IsCancelledRecording(hist[s])
        /\ Len(hist[s]) >= 4
        /\ TranscriptionsTo(s) = {}
        /\ ~HasEntry(s)

EndStreamFinished(s) ==
    hist[s] # <<>> /\ Last(hist[s]) \in {"end_stream", "end_stream_done"}

\* C9: when an end_stream handler of a connection has finished, on whichever
\* path, the connection has no entry in session_data.
C9_EndStreamRemovesEntry ==
    \A s \in SIDs : EndStreamFinished(s) => ~HasEntry(s)

C9_Witness ==
    \E s \in SIDs :
        /\ EndStreamFinished(s)
        /\ end_path[s] = "error"
        /\ emitted[s] # <<>>
        /\ ~HasEntry(s)

Closers == {"end_stream", "end_stream_done", "cancel_stream", "disconnect"}

\* C10: session_data holds an entry for a connection only if it has connected and
\* no end_stream handler has finished, no cancel_stream and no disconnect has been
\* handled for it since; and no disconnect handler raised.
C10_EntryOnlyWhileRecording ==
    \A s \in SIDs :
        /\ HasEntry(s) =>
              /\ conn[s] = "open"
              /\ hist[s] # <<>>
              /\ hist[s][1] = "connect"
              /\ \A i \in 1..Len(hist[s]) : hist[s][i] \notin Closers
        /\ <<s, "disconnect">> \notin handler_errors

C10_Witness ==
    \E s \in SIDs :
        /\ Len(hist[s]) >= 3
        /\ "cancel_stream" \in {hist[s][i] : i \in 1..Len(hist[s])}
        /\ Last(hist[s]) = "disconnect"
        /\ ~HasEntry(s)

\* the samples the client of connection s can have sent
SamplesOf(s) == UNION {{c[i] : i \in 1..Len(c)} : c \in ChunksOf(s)}

\* the handler that ran in this step ran for connection a
HandlerRanFor(a) == hist'[a] # hist[a]

\* the audio every end_stream handler of s has read or processed
AudioProcessedFor(s) ==
    {inflight[s][i] : i \in 1..Len(inflight[s])}
        \cup {emitted[s][i].audio : i \in TranscriptionsTo(s)}

\* C11: a handler that runs for connection A leaves the existence and the
\* contents of the buffer of every other connection B unchanged, and the audio an
\* end_stream handler of A reads and processes holds only samples sent on A.
C11_BuffersNotShared ==
    /\ [][\A a \in SIDs : HandlerRanFor(a) =>
              \A b \in SIDs \ {a} :
                  /\ (b \in DOMAIN session_data') = (b \in DOMAIN session_data)
                  /\ b \in DOMAIN session_data => session_data'[b] = session_data[b]]_vars
    /\ [](\A a \in SIDs : \A audio \in AudioProcessedFor(a) :
              \A i \in 1..Len(audio) : audio[i] \in SamplesOf(a))

C11_Witness ==
    \E a \in SIDs : \E b \in SIDs \ {a} :
        /\ HasEntry(b)
        /\ session_data[b].buffer # <<>>
        /\ hist[a] # <<>>
        /\ Last(hist[a]) = "end_stream_done"
        /\ end_path[a] = "ok"
        /\ Last(emitted[a]).audio # <<>>

\* the end_stream processing of s finished in the last handler step for s
ProcessingDone(s) == hist[s] # <<>> /\ Last(hist[s]) = "end_stream_done"

\* the request that processing made failed with a RequestException
RequestFailed(s) == ProcessingDone(s) /\ Last(llm_calls[s]) = <<"request_exception">>

\* C19 as claimed: when the one request fails, the transcription event of that
\* end_stream carries the fixed sentence (as it is, or as the reverse translator
\* renders it) to the client (stated for loaded translators).
C19_Original ==
    \A s \in SIDs :
        (RequestFailed(s) /\ translators_loaded) =>
            Last(emitted[s]).translated_text
                \in {UnableToConnect, translate_en_gu(UnableToConnect)}

\* C19 as amended: no end_stream processing makes more than one request, and a
\* successful one makes exactly one; when the request fails the fixed sentence is
\* handed to the reverse translator and the event carries the translator's
\* output as translated_text, "Translation model not loaded." when the
\* translators are not loaded, and is the error transcription when the reverse
\* translation raises.
C19_SingleRequestDegrades ==
    \A s \in SIDs :
        /\ \A i \in 1..Len(llm_calls[s]) : Len(llm_calls[s][i]) <= 1
        /\ (ProcessingDone(s) /\ end_path[s] = "ok") => Len(Last(llm_calls[s])) = 1
        /\ RequestFailed(s) =>
              LET ev == Last(emitted[s])
              IN \/ ev = ErrorTranscription(ev.audio)
                 \/ /\ translators_loaded
                    /\ ev.translated_text = translate_en_gu(UnableToConnect)
                 \/ /\ ~translators_loaded
                    /\ ev.translated_text = TranslationNotLoaded

C19_Witness ==
    \E s \in SIDs :
        /\ RequestFailed(s)
        /\ translators_loaded
        /\ end_path[s] = "ok"
        /\ Last(emitted[s]).translated_text = translate_en_gu(UnableToConnect)

\* the handler step of s that just ran is h
JustRan(s, h) == HandlerRanFor(s) /\ Last(hist'[s]) = h

\* C20: a cancel_stream or disconnect handled while an end_stream processing of
\* the connection is in flight leaves that processing and the events emitted
\* untouched; the processing then finishes on the buffer it read, emits its one
\* transcription event, its cleanup raises nothing on the entry already removed,
\* and the entry is absent afterwards.
C20_InFlightUnaffected ==
    /\ [][\A s \in SIDs :
            (JustRan(s, "cancel_stream") \/ JustRan(s, "disconnect"))
                => (inflight'[s] = inflight[s] /\ emitted'[s] = emitted[s])]_vars
    /\ [][\A s \in SIDs :
            (JustRan(s, "end_stream_done") /\ ~HasEntry(s))
                => /\ Len(emitted'[s]) = Len(emitted[s]) + 1
                   /\ Last(emitted'[s]).event = "transcription"
                   /\ Last(emitted'[s]).audio # <<>>
                   /\ \E i \in 1..Len(inflight[s]) :
                         Last(emitted'[s]).audio = inflight[s][i]
                   /\ Len(inflight'[s]) = Len(inflight[s]) - 1
                   /\ s \notin DOMAIN session_data'
                   /\ handler_errors' = handler_errors]_vars

\* connect, audio, end_stream begun, cancel or disconnect, processing finished
C20_Witness ==
    \E s \in SIDs :
        /\ Len(hist[s]) >= 5
        /\ hist[s][Len(hist[s])] = "end_stream_done"
        /\ hist[s][Len(hist[s]) - 1] \in {"cancel_stream", "disconnect"}
        /\ hist[s][Len(hist[s]) - 2] = "end_stream_begin"
        /\ Cardinality(TranscriptionsTo(s)) = 1
        /\ Last(emitted[s]).audio # <<>>
        /\ end_path[s] = "ok"
        /\ handler_errors = {}
        /\ ~HasEntry(s)

\* the entry of s was removed earlier and s is still connected
EntryRemoved(s) == conn[s] = "open" /\ ~HasEntry(s)

NoAudioRecorded == TextOnly(<<"No audio recorded.">>, <<>>)

\* C21: once the entry of a connected sid has been removed, no handler run for
\* it creates an entry again; an audio_chunk leaves session_data as it is; and an
\* end_stream reads no audio, starts no processing and emits exactly the
\* "No audio recorded." transcription.
C21_OneBufferPerLifetime ==
    [][\A s \in SIDs :
          (EntryRemoved(s) /\ HandlerRanFor(s)) =>
              /\ s \notin DOMAIN session_data'
              /\ JustRan(s, "audio_chunk") => session_data' = session_data
              /\ ~JustRan(s, "end_stream_begin")
              /\ JustRan(s, "end_stream") =>
                    /\ emitted'[s] = Append(emitted[s], NoAudioRecorded)
                    /\ inflight'[s] = inflight[s]
                    /\ llm_calls'[s] = llm_calls[s]]_vars

\* recorded, entry removed by cancel_stream or end_stream, a chunk, an end_stream
C21_Witness ==
    \E s \in SIDs :
        /\ Len(hist[s]) >= 5
        /\ hist[s][2] = "audio_chunk"
        /\ \E i \in 3..(Len(hist[s]) - 2) :
              hist[s][i] \in {"cancel_stream", "end_stream", "end_stream_done"}
        /\ hist[s][Len(hist[s]) - 1] = "audio_chunk"
        /\ Last(hist[s]) = "end_stream"
        /\ Last(emitted[s]) = NoAudioRecorded
        /\ ~HasEntry(s)

\* the chunks of a sequence of audio_chunk payloads, one after the other
Concatenated(chunks) ==
    LET RECURSIVE cat(_)
        cat(c) == IF c = <<>> THEN <<>> ELSE cat(SubSeq(c, 1, Len(c) - 1)) \o c[Len(c)]
    IN cat(chunks)

\* C22: while a connection has an entry, its buffer is the concatenation, in
\* the order received, of the chunks received on it since connect; it is empty
\* right after connect and an audio_chunk lengthens it by the length of its chunk.
C22_BufferIsConcatenation ==
    /\ [](\A s \in SIDs :
              HasEntry(s) => session_data[s].buffer = Concatenated(received[s]))
    /\ [][\A s \in SIDs :
            /\ JustRan(s, "connect") => session_data'[s].buffer = <<>>
            /\ (JustRan(s, "audio_chunk") /\ HasEntry(s)) =>
                  /\ s \in DOMAIN session_data'
                  /\ Len(session_data'[s].buffer)
                        = Len(session_data[s].buffer) + Len(Last(received'[s]))]_vars

\* three chunks, two of them different, in one buffer
C22_Witness ==
    \E s \in SIDs :
        /\ HasEntry(s)
        /\ Len(received[s]) = 3
        /\ received[s][1] # received[s][2]
        /\ session_data[s].buffer = Concatenated(received[s])
        /\ Len(session_data[s].buffer) >= 4

\* the end_stream events handled for s: finished at once, or begun
EndStreamEvents(s) ==
    {i \in 1..Len(hist[s]) : hist[s][i] \in {"end_stream", "end_stream_begin"}}

\* a transcription event carrying this text only
IsTextOnly(ev, text) ==
    /\ ev.event = "transcription"
    /\ ev.original_text = <<text>>
    /\ ev.english_text = <<>>
    /\ ev.translated_text = <<>>

\* C23: an end_stream handler that finishes has emitted exactly one event to
\* its connection, a transcription: "No audio recorded." when the entry was
\* absent or the buffer empty, otherwise "STT model not loaded on server." when
\* the model is missing, otherwise the three texts or the fixed error text; and
\* the transcriptions emitted to a connection are as many as its end_stream
\* events less those still being processed.
C23_OneTranscriptionPerEndStream ==
    /\ [](\A s \in SIDs :
              Cardinality(TranscriptionsTo(s)) + Len(inflight[s])
                  = Cardinality(EndStreamEvents(s)))
    /\ [][\A s \in SIDs :
            /\ (JustRan(s, "end_stream") \/ JustRan(s, "end_stream_done")) =>
                  /\ Len(emitted'[s]) = Len(emitted[s]) + 1
                  /\ SubSeq(emitted'[s], 1, Len(emitted[s])) = emitted[s]
                  /\ Last(emitted'[s]).event = "transcription"
            /\ JustRan(s, "end_stream_begin") =>
                  /\ emitted'[s] = emitted[s]
                  /\ Len(inflight'[s]) = Len(inflight[s]) + 1
                  /\ stt_loaded
                  /\ HasEntry(s) /\ session_data[s].buffer # <<>>
            /\ JustRan(s, "end_stream") =>
                  IF ~HasEntry(s) \/ session_data[s].buffer = <<>>
                  THEN IsTextOnly(Last(emitted'[s]), "No audio recorded.")
                  ELSE /\ ~stt_loaded
                       /\ IsTextOnly(Last(emitted'[s]), "STT model not loaded on server.")
            /\ JustRan(s, "end_stream_done") =>
                  LET ev == Last(emitted'[s])
                  IN IF end_path'[s] = "ok"
                     THEN /\ ev.original_text = transliterate(stt_decode(ev.audio))
                          /\ ev.english_text # <<>>
                          /\ ev.translated_text # <<>>
                     ELSE IsTextOnly(ev, "An error occurred during transcription.")]_vars

\* one connection whose end_stream events took the no-audio path and the
\* error path, with one transcription each
C23_Witness ==
    \E s \in SIDs :
        /\ Cardinality(EndStreamEvents(s)) = 2
        /\ inflight[s] = <<>>
        /\ Cardinality(TranscriptionsTo(s)) = 2
        /\ \E i, j \in TranscriptionsTo(s) :
              /\ IsTextOnly(emitted[s][i], "An error occurred during transcription.")
              /\ IsTextOnly(emitted[s][j], "No audio recorded.")

-----------------------------------------------------------------------------
(* Properties of the population of the store, checked under SpecIngest *)

RunOver == setup_pc = "finished"

\* C12: a run that finds at least one row in users inserts nothing and leaves
\* users and attendance as they were, whatever the PDF parses to; hence once the
\* users table holds a row no step of any later run changes either table.
C12_PopulatedIsFinal ==
    /\ []((RunOver /\ users_before # <<>>) =>
            /\ run_result \in {"skipped", "failed"}
            /\ users = users_before
            /\ attendance = attendance_before)
    /\ [][users # <<>> => (users' = users /\ attendance' = attendance)]_vars

C12_Witness ==
    /\ RunOver
    /\ runs >= 2
    /\ run_result = "skipped"
    /\ Len(users_before) = 2
    /\ users = users_before
    /\ Len(attendance) = 10

\* C13: when a run ends in an error, whichever step raised, the users and
\* attendance tables hold none of the rows the run added: they are as they were
\* when the run started.
C13_AllOrNothing ==
    (RunOver /\ run_result = "failed")
        => /\ users = users_before
           /\ attendance = attendance_before
           /\ txn_users = <<>>
           /\ txn_attendance = <<>>

\* the run failed on its second student, after the first was flushed
C13_Witness ==
    /\ RunOver
    /\ run_result = "failed"
    /\ Len(student_data) = 2
    /\ next_student = 2
    /\ student_data[1].exam_no # student_data[2].exam_no
    /\ student_data[1].student_id = student_data[2].student_id
    /\ users = <<>>
    /\ attendance = <<>>

\* C14: whatever runs have been made, no two rows of users have the same exam_no,
\* nor the same id.
C14_ExamNoUnique ==
    \A i, j \in 1..Len(users) :
        i # j => (users[i].exam_no # users[j].exam_no /\ users[i].id # users[j].id)

\* two users committed by a run that followed a failed one
C14_Witness ==
    /\ Len(users) = 2
    /\ runs >= 2
    /\ run_result = "populated"
    /\ users[1].exam_no # users[2].exam_no

\* C15: whatever runs have been made, every row of attendance has the id of a
\* row of users as its user_id.
C15_AttendanceHasUser ==
    \A i \in 1..Len(attendance) :
        \E k \in 1..Len(users) : attendance[i].user_id = users[k].id

C15_Witness ==
    /\ Len(attendance) = 2 * Len(subjects)
    /\ Len(users) = 2
    /\ \E i \in 1..Len(attendance) : attendance[i].user_id = users[2].id

\* the subjects of the attendance rows of the user with this id, in table order
SubjectsOf(id) ==
    LET rows == SelectSeq(attendance, LAMBDA a : a.user_id = id)
    IN [i \in 1..Len(rows) |-> rows[i].subject]

\* C25: a run that starts on an empty users table with n >= 1 parsed records of
\* pairwise distinct exam numbers (and pairwise distinct student IDs where they
\* have one), and in which the database raises for no other reason than its
\* schema, commits n users, one per record, and the five attendance rows of
\* each, also when several records have no student ID.
C25_PopulatesEveryRecord ==
    (/\ RunOver
     /\ users_before = <<>>
     /\ ~db_error
     /\ Len(student_data) >= 1
     /\ \A i, j \in 1..Len(student_data) :
           i # j => student_data[i].exam_no # student_data[j].exam_no
     /\ \A i, j \in 1..Len(student_data) :
           (i # j /\ student_data[i].student_id = student_data[j].student_id)
               => student_data[i].student_id = "Not Available")
        => /\ run_result = "populated"
           /\ Len(users) = Len(student_data)
           /\ \A i \in 1..Len(student_data) : users[i] = new_user(student_data[i])
           /\ Len(attendance) = Len(subjects) * Len(student_data)
           /\ \A i \in 1..Len(users) : SubjectsOf(users[i].id) = subjects

-----------------------------------------------------------------------------
(* Specifications *)

SpecQuery == InitQuery /\ [][NextQuery]_vars

SpecSession == InitSession /\ [][NextSession]_vars

SpecIngest == InitIngest /\ [][NextIngest]_vars

SpecAttendance == InitAttendance /\ [][NextAttendance]_vars

SpecCalls == InitCalls /\ [][NextCalls]_vars

====
